---- MODULE Spec2Model ----
(***************************************************************************)
(* Model of quantized_llm_service: the model registry, the decode loop of  *)
(* ModelInstance::generate, the benchmark harness and the HTTP handlers.   *)
(*                                                                         *)
(* Every task is one request accepted by the axum router.  A task runs its *)
(* handler; a generation is handed to a blocking worker (spawn_blocking)   *)
(* and the handler awaits it.  Text is a sequence of characters, a token   *)
(* sequence is a sequence of ids.  Wall-clock timing (total_time_ms,       *)
(* tokens_per_second) is not modelled.                                     *)
(***************************************************************************)
EXTENDS Integers, Sequences, FiniteSets, TLC

\* ------------------------------------------------------------------ bounds
\* The largest max_new_tokens a request or the configuration asks for.
MaxNewTokens == 2

\* --------------------------------------------------------------- constants
EOS == 50256

\* Two requests are in flight at a time.
Tasks == {1, 2}
Handles == {"quantized", "baseline"}

\* Characters of the modelled texts; "z" stands for a character the
\* tokenizer's normalizer drops (it is not whitespace for str::trim).
Whitespace == {" "}
Prompts == {<<>>, <<" ">>, <<"a">>, <<" ", "b">>, <<"z">>}
VocabIds == <<0, 1, 2, EOS>>

\* --------------------------------------------------------------- utilities
None == <<>>
Some(x) == <<x>>
IsSome(o) == Len(o) = 1
IsNone(o) == Len(o) = 0
Unwrap(o) == o[1]
UnwrapOr(o, d) == IF IsSome(o) THEN o[1] ELSE d

Ok(v) == [ok |-> TRUE, val |-> v]
Err(k, m) == [ok |-> FALSE, kind |-> k, msg |-> m]

RECURSIVE SumSeq(_)
SumSeq(s) == IF s = <<>> THEN 0 ELSE Head(s) + SumSeq(Tail(s))

RECURSIVE Flatten(_)
Flatten(ss) == IF ss = <<>> THEN <<>> ELSE Head(ss) \o Flatten(Tail(ss))

\* str::trim: strips leading and trailing whitespace.
RECURSIVE TrimStart(_)
TrimStart(s) ==
    IF s # <<>> /\ Head(s) \in Whitespace THEN TrimStart(Tail(s)) ELSE s

RECURSIVE TrimEnd(_)
TrimEnd(s) ==
    IF s # <<>> /\ s[Len(s)] \in Whitespace
    THEN TrimEnd(SubSeq(s, 1, Len(s) - 1)) ELSE s

\* Mutant: the prompt is tested without trimming.
TrimNothing(s) == s

Trim(s) == TrimEnd(TrimStart(s))

\* ------------------------------------------------------------- tokenizer
\* Tokenizer::encode: one id per character, the dropped character none.
CharIds(c) ==
    CASE c = " " -> <<0>>
      [] c = "a" -> <<1>>
      [] c = "b" -> <<2>>
      [] OTHER -> <<>>

Encode(text) == Flatten([i \in 1..Len(text) |-> CharIds(text[i])])

\* Tokenizer::decode(ids, skip_special_tokens = true): the end-of-sequence
\* token is special and yields no text.
TokenText(id) ==
    CASE id = 0 -> <<" ">>
      [] id = 1 -> <<"a">>
      [] id = 2 -> <<"b">>
      [] OTHER -> <<>>

Decode(ids) == Flatten([i \in 1..Len(ids) |-> TokenText(ids[i])])

\* ---------------------------------------------------------- forward pass
\* The traced module is a deterministic function of its weights (one set per
\* handle) and of the whole input sequence.  Logits of the last position,
\* one score per vocabulary entry.
Weight(h) == IF h = "quantized" THEN 3 ELSE 1

LastLogits(h, ids) ==
    [j \in 1..Len(VocabIds) |->
        (((SumSeq(ids) % 7) + Len(ids) + Weight(h)) * j + j * j) % 5]

\* Tensor::argmax: index of the first maximal score.
Argmax(v) ==
    CHOOSE j \in 1..Len(v) :
        /\ \A k \in 1..Len(v) : v[k] <= v[j]
        /\ \A k \in 1..(j - 1) : v[k] < v[j]

NextTokenId(h, ids) == VocabIds[Argmax(LastLogits(h, ids))]

\* ------------------------------------------------------------------ state
VARIABLES
    artifacts,   \* ModelArtifacts: which handles the store holds
    config,      \* AppConfig fields the handlers read
    lock,        \* per handle: the task whose worker holds module's Mutex, 0 if free
    evaluation,  \* AppState.evaluation: the cached report (an Option)
    lastRun,     \* history: report of the last evaluation run that replaced the cache
    op,          \* per task: the handler it runs
    pc,          \* per task: position of the handler / run_benchmark
    request,     \* per task: the GenerationRequest being dispatched
    call,        \* per task: the blocking worker running ModelInstance::generate
    bench,       \* per task: run_benchmark's locals
    response     \* per task: what the handler returned (an Option)

vars == <<artifacts, config, lock, evaluation, lastRun, op, pc, request, call,
          bench, response>>

\* AppConfig::from_env: the process-wide defaults; the temperature is counted
\* in tenths (0.8).
Config(path) ==
    [max_new_tokens |-> MaxNewTokens, temperature |-> 8, top_k |-> 40,
     eval_prompts_path |-> path]

\* ModelArtifacts::load: the baseline is required, no quantized model is loaded.
Load == [quantized |-> FALSE, baseline |-> TRUE]

\* What load finds on disk: whether the tokenizer file parses, and for each
\* configured module path whether the file is missing, is there but cannot be
\* loaded, or holds a module.
LoadEnvs ==
    [tokenizer_file : BOOLEAN,
     baseline_file : {"missing", "unloadable", "module"},
     quantized_file : {"missing", "unloadable", "module"}]

\* ModelInstance::new
ModelInstanceNew(file) ==
    CASE file = "missing" -> [ok |-> FALSE, kind |-> "Other", msg |-> "model artifact missing"]
      [] file = "unloadable" -> [ok |-> FALSE, kind |-> "Inference", msg |-> "load_on_device failed"]
      [] OTHER -> [ok |-> TRUE, val |-> TRUE]

\* Mutant: the quantized module is loaded when its file holds one.
ModelArtifactsLoadBoth(env) ==
    IF ~env.tokenizer_file
    THEN [ok |-> FALSE, kind |-> "Tokenizer", msg |-> "from_file failed"]
    ELSE LET baseline == ModelInstanceNew(env.baseline_file)
         IN IF ~baseline.ok THEN baseline
            ELSE [ok |-> TRUE,
                  val |-> [quantized |-> ModelInstanceNew(env.quantized_file).ok,
                           baseline |-> TRUE]]

\* ModelArtifacts::load
ModelArtifactsLoad(env) ==
    IF ~env.tokenizer_file
    THEN [ok |-> FALSE, kind |-> "Tokenizer", msg |-> "from_file failed"]
    ELSE LET baseline == ModelInstanceNew(env.baseline_file)
         IN IF ~baseline.ok THEN baseline
            ELSE [ok |-> TRUE, val |-> Load]

\* ModelArtifacts has two optional handles; load is one way to fill them.
ArtifactsSpace == [quantized : BOOLEAN, baseline : BOOLEAN]

\* std::fs::metadata(module_path).len() of the two artifacts.
SizeBytes(h) == IF h = "quantized" THEN 900 ELSE 1000

\* ModelInstance::metadata.  load builds the baseline as ("baseline", false,
\* "float32"); no call builds a quantized instance, its name and dtype here
\* only tell it apart from the baseline.
Metadata(h) ==
    [name |-> h, quantized |-> (h = "quantized"),
     dtype |-> (IF h = "quantized" THEN "int8" ELSE "float32"),
     size_bytes |-> SizeBytes(h)]

\* ModelRegistry::has_baseline / has_quantized
HasBaseline == artifacts.baseline
HasQuantized == artifacts.quantized

\* ModelRegistry::metadata
RegistryMetadata ==
    [quantized |-> IF artifacts.quantized THEN Some(Metadata("quantized")) ELSE None,
     baseline |-> IF artifacts.baseline THEN Some(Metadata("baseline")) ELSE None]

NoRequest == [prompt |-> <<>>, max_new_tokens |-> None, temperature |-> None, top_k |-> None]

\* A GenerationRequest as the clients send it: max_new_tokens is optional.
Requests ==
    [prompt : Prompts,
     max_new_tokens : {None} \cup {Some(m) : m \in 0..(MaxNewTokens - 1)},
     temperature : {None},
     top_k : {None}]

\* GenerationRequests that also choose the optional temperature (in tenths)
\* and top_k.
SampledRequests ==
    [prompt : {<<"a">>, <<"z">>},
     max_new_tokens : {None} \cup {Some(m) : m \in 0..(MaxNewTokens - 1)},
     temperature : {None, Some(15)},
     top_k : {None, Some(1)}]

NoCall ==
    [pc |-> "none", model |-> "baseline", prompt |-> <<>>, max_new_tokens |-> 0,
     input_ids |-> <<>>, prompt_token_len |-> 0, iter |-> 0, result |-> None,
     passes |-> 0, encoded |-> FALSE, locked |-> FALSE, temperature |-> 0, top_k |-> 0]

\* run_benchmark's locals; samples stays readable until the task takes its
\* next request.
NoBench == [samples |-> <<>>, idx |-> 0, quantized |-> None, reports |-> <<>>]

Init ==
    /\ artifacts \in ArtifactsSpace
    /\ config \in {Config(p) : p \in BOOLEAN}
    /\ lock = [h \in Handles |-> 0]
    /\ evaluation = None
    /\ lastRun = None
    /\ op = [t \in Tasks |-> "none"]
    /\ pc = [t \in Tasks |-> "idle"]
    /\ request = [t \in Tasks |-> NoRequest]
    /\ call = [t \in Tasks |-> NoCall]
    /\ bench = [t \in Tasks |-> NoBench]
    /\ response = [t \in Tasks |-> None]

\* -------------------------------------------------------------- responses
\* Mutant: tokens_generated counts the prompt's ids as well.
GenerationResponseWholeSequence(c) ==
    [prompt |-> c.prompt,
     completion |-> Decode(SubSeq(c.input_ids, c.prompt_token_len + 1, Len(c.input_ids))),
     tokens_generated |-> Len(c.input_ids),
     model |-> Metadata(c.model)]

\* GenerationResponse, without the wall-clock fields.
GenerationResponse(c) ==
    [prompt |-> c.prompt,
     completion |-> Decode(SubSeq(c.input_ids, c.prompt_token_len + 1, Len(c.input_ids))),
     tokens_generated |-> Len(c.input_ids) - c.prompt_token_len,
     model |-> Metadata(c.model)]

\* str::to_lowercase
LowerChar(ch) == IF ch = "A" THEN "a" ELSE IF ch = "B" THEN "b" ELSE ch
ToLowercase(s) == [i \in 1..Len(s) |-> LowerChar(s[i])]

\* str::contains
Contains(hay, needle) ==
    \E i \in 0..(Len(hay) - Len(needle)) : SubSeq(hay, i + 1, i + Len(needle)) = needle

ReferenceMatch(resp, needle) == Contains(ToLowercase(resp.completion), ToLowercase(needle))

\* The SampleReport run_benchmark pushes for one sample; baseline is an Option.
SampleReport(sample, quantized, baseline) ==
    [prompt |-> sample.prompt,
     quantized |-> quantized,
     baseline |-> baseline,
     reference_match_quantized |->
        IF IsSome(sample.reference_substring)
        THEN Some(ReferenceMatch(quantized, Unwrap(sample.reference_substring)))
        ELSE None,
     reference_match_baseline |->
        IF IsSome(sample.reference_substring) /\ IsSome(baseline)
        THEN Some(ReferenceMatch(Unwrap(baseline), Unwrap(sample.reference_substring)))
        ELSE None]

\* compute_match_rate over the Some(..) values of a field of the reports: the
\* rate is the fraction <<matches, count>>, None when count is 0.
RECURSIVE CountObserved(_, _, _)
CountObserved(reports, field, wanted) ==
    IF reports = <<>> THEN 0
    ELSE (IF IsSome(Head(reports)[field]) /\ (wanted => Unwrap(Head(reports)[field]))
          THEN 1 ELSE 0) + CountObserved(Tail(reports), field, wanted)

\* Mutant: no observation counts as a rate of zero.
ComputeMatchRateZero(reports, field) ==
    LET count == CountObserved(reports, field, FALSE)
        matches == CountObserved(reports, field, TRUE)
    IN IF count = 0 THEN Some(<<0, 1>>) ELSE Some(<<matches, count>>)

ComputeMatchRate(reports, field) ==
    LET count == CountObserved(reports, field, FALSE)
        matches == CountObserved(reports, field, TRUE)
    IN IF count = 0 THEN None ELSE Some(<<matches, count>>)

\* summarize, without the latency and throughput means.
Summarize(reports) ==
    [quantized_reference_match_rate |-> ComputeMatchRate(reports, "reference_match_quantized"),
     baseline_reference_match_rate |-> ComputeMatchRate(reports, "reference_match_baseline")]

EvaluationReport(reports) == [samples |-> reports, aggregate |-> Summarize(reports)]

\* ------------------------------------------------- returning to the caller
\* run_benchmark after one sample's generations: push the SampleReport.
PushReport(t, baseline) ==
    LET b == bench[t] IN
    /\ bench' = [bench EXCEPT ![t] =
                    [b EXCEPT !.reports = Append(@, SampleReport(b.samples[b.idx],
                                                     Unwrap(b.quantized), baseline)),
                              !.idx = @ + 1,
                              !.quantized = None]]
    /\ pc' = [pc EXCEPT ![t] = "bench_loop"]
    /\ response' = response

\* Mutant: run_benchmark skips a sample whose generation failed.
ResumeSkipFailed(t, r, path) ==
    IF op[t] # "evaluate"
    THEN /\ pc' = [pc EXCEPT ![t] = "done"]
         /\ response' = [response EXCEPT ![t] = Some(r)]
         /\ bench' = [bench EXCEPT ![t] = [NoBench EXCEPT !.samples = bench[t].samples]]
    ELSE IF ~r.ok
    THEN /\ pc' = [pc EXCEPT ![t] = "bench_loop"]
         /\ bench' = [bench EXCEPT ![t].idx = @ + 1, ![t].quantized = None]
         /\ response' = response
    ELSE IF path = "quantized"
    THEN /\ pc' = [pc EXCEPT ![t] = "bench_baseline"]
         /\ bench' = [bench EXCEPT ![t].quantized = Some(r.val)]
         /\ response' = response
    ELSE PushReport(t, Some(r.val))

\* The caller of registry.generate_quantized / generate_baseline gets result r:
\* a handler returns it; run_benchmark returns an error (the ? operator) and
\* otherwise goes on with the sample.
Resume(t, r, path) ==
    IF op[t] # "evaluate" \/ ~r.ok
    THEN /\ pc' = [pc EXCEPT ![t] = "done"]
         /\ response' = [response EXCEPT ![t] = Some(r)]
         /\ bench' = [bench EXCEPT ![t] = [NoBench EXCEPT !.samples = bench[t].samples]]
    ELSE IF path = "quantized"
    THEN /\ pc' = [pc EXCEPT ![t] = "bench_baseline"]
         /\ bench' = [bench EXCEPT ![t].quantized = Some(r.val)]
         /\ response' = response
    ELSE PushReport(t, Some(r.val))

\* --------------------------------------------------------------- registry
\* ModelRegistry::spawn_inference: the defaults are filled in and the call is
\* handed to a blocking worker.
SpawnInference(t, h) ==
    /\ call' = [call EXCEPT ![t] =
                   [NoCall EXCEPT !.pc = "spawned",
                                  !.model = h,
                                  !.prompt = request[t].prompt,
                                  !.max_new_tokens =
                                      UnwrapOr(request[t].max_new_tokens,
                                               config.max_new_tokens),
                                  !.temperature =
                                      UnwrapOr(request[t].temperature, config.temperature),
                                  !.top_k = UnwrapOr(request[t].top_k, config.top_k)]]
    /\ pc' = [pc EXCEPT ![t] = "await"]
    /\ UNCHANGED <<bench, response>>

\* Mutant: without a quantized handle the call falls back to the baseline.
RegistryGenerateQuantizedFallback(t) ==
    /\ pc[t] = "registry_quantized"
    /\ IF artifacts.quantized
       THEN SpawnInference(t, "quantized")
       ELSE IF artifacts.baseline
       THEN SpawnInference(t, "baseline")
       ELSE /\ Resume(t, Err("Other", "Quantized model not available"), "quantized")
            /\ call' = call
    /\ request' = [request EXCEPT ![t] = NoRequest]
    /\ UNCHANGED <<artifacts, config, lock, evaluation, lastRun, op>>

\* ModelRegistry::generate_quantized
RegistryGenerateQuantized(t) ==
    /\ pc[t] = "registry_quantized"
    /\ IF artifacts.quantized
       THEN SpawnInference(t, "quantized")
       ELSE /\ Resume(t, Err("Other", "Quantized model not available"), "quantized")
            /\ call' = call
    /\ request' = [request EXCEPT ![t] = NoRequest]
    /\ UNCHANGED <<artifacts, config, lock, evaluation, lastRun, op>>

\* ModelRegistry::generate_baseline
RegistryGenerateBaseline(t) ==
    /\ pc[t] = "registry_baseline"
    /\ IF artifacts.baseline
       THEN SpawnInference(t, "baseline")
       ELSE /\ Resume(t, Err("ModelLoading", "model is still loading"), "baseline")
            /\ call' = call
    /\ request' = [request EXCEPT ![t] = NoRequest]
    /\ UNCHANGED <<artifacts, config, lock, evaluation, lastRun, op>>

\* Mutant: the caller is resumed by a worker's return value only.
AwaitJoinReturnOnly(t) ==
    /\ pc[t] = "await"
    /\ call[t].pc = "finished"
    /\ Resume(t, Unwrap(call[t].result), call[t].model)
    /\ call' = [call EXCEPT ![t] = NoCall]
    /\ UNCHANGED <<artifacts, config, lock, evaluation, lastRun, op, request>>

\* spawn_inference's .await on the JoinHandle: a worker that panicked yields a
\* JoinError, mapped to Inference.
AwaitJoin(t) ==
    /\ pc[t] = "await"
    /\ call[t].pc \in {"finished", "panicked"}
    /\ LET r == IF call[t].pc = "panicked"
                THEN Err("Inference", "inference task failed")
                ELSE Unwrap(call[t].result)
       IN Resume(t, r, call[t].model)
    /\ call' = [call EXCEPT ![t] = NoCall]
    /\ UNCHANGED <<artifacts, config, lock, evaluation, lastRun, op, request>>

\* ------------------------------------------------- ModelInstance::generate
\* What one forward pass can give back: a tensor, a tuple whose first element
\* is a tensor, a tuple whose first element is not, any other value, an error
\* of forward_is, or a tensor whose shape makes select/argmax panic.
ForwardOutcomes == {"tensor", "tuple", "tuple_bad", "other", "error", "panic"}

Finish(c, r) == [c EXCEPT !.pc = "finished", !.result = Some(r)]

WorkerFrame == <<artifacts, config, evaluation, lastRun, op, pc, request, bench, response>>

\* generate, the prompt check: prompt.trim().is_empty()
GenerateValidate(t) ==
    /\ call[t].pc = "spawned"
    /\ call' = [call EXCEPT ![t] =
                   IF Trim(@.prompt) = <<>>
                   THEN Finish(@, Err("BadRequest", "prompt must not be empty"))
                   ELSE [@ EXCEPT !.pc = "encode"]]
    /\ UNCHANGED <<WorkerFrame, lock>>

\* generate, tokenizer.encode and the placeholder id for an empty encoding
GenerateEncode(t) ==
    /\ call[t].pc = "encode"
    /\ \E ok \in BOOLEAN :
          call' = [call EXCEPT ![t] =
                      IF ok
                      THEN LET ids == IF Encode(@.prompt) = <<>> THEN <<0>>
                                      ELSE Encode(@.prompt)
                           IN [@ EXCEPT !.pc = "lock", !.encoded = TRUE,
                                        !.input_ids = ids,
                                        !.prompt_token_len = Len(ids)]
                      ELSE [Finish(@, Err("Tokenizer", "encode failed"))
                               EXCEPT !.encoded = TRUE]]
    /\ UNCHANGED <<WorkerFrame, lock>>

\* Mutant: one mutex guards every handle.
LockModuleGlobal(t) ==
    /\ call[t].pc = "lock"
    /\ \A h \in Handles : lock[h] = 0
    /\ lock' = [lock EXCEPT ![call[t].model] = t]
    /\ call' = [call EXCEPT ![t].pc = "loop", ![t].locked = TRUE, ![t].iter = 0]
    /\ UNCHANGED WorkerFrame

\* Mutant: the module is entered without waiting for the mutex.
LockModuleNoWait(t) ==
    /\ call[t].pc = "lock"
    /\ lock' = [lock EXCEPT ![call[t].model] = t]
    /\ call' = [call EXCEPT ![t].pc = "loop", ![t].locked = TRUE, ![t].iter = 0]
    /\ UNCHANGED WorkerFrame

\* generate, self.module.lock(): blocks until the mutex is free
LockModule(t) ==
    /\ call[t].pc = "lock"
    /\ lock[call[t].model] = 0
    /\ lock' = [lock EXCEPT ![call[t].model] = t]
    /\ call' = [call EXCEPT ![t].pc = "loop", ![t].locked = TRUE, ![t].iter = 0]
    /\ UNCHANGED WorkerFrame

\* Mutant: the range is inclusive, `0..=max_new_tokens`.
ForwardBeginInclusive(t) ==
    /\ call[t].pc = "loop"
    /\ call[t].iter <= call[t].max_new_tokens
    /\ call' = [call EXCEPT ![t].pc = "forward", ![t].passes = @ + 1]
    /\ UNCHANGED <<WorkerFrame, lock>>

\* generate, one more iteration of `for _ in 0..max_new_tokens`: the whole
\* current sequence goes into module.forward_is
ForwardBegin(t) ==
    /\ call[t].pc = "loop"
    /\ call[t].iter < call[t].max_new_tokens
    /\ call' = [call EXCEPT ![t].pc = "forward", ![t].passes = @ + 1]
    /\ UNCHANGED <<WorkerFrame, lock>>

\* Mutant: only the newest id is fed to the module, as with a key-value cache.
InputTensorLastOnly(t) == <<call[t].input_ids[Len(call[t].input_ids)]>>

\* Mutant: the sequence lives in a buffer of the handle, which a request
\* waiting for the mutex has already overwritten with its own prompt.
InputTensorShared(t) ==
    LET waiting == {u \in Tasks \ {t} :
                       call[u].model = call[t].model /\ call[u].pc = "lock"}
    IN IF waiting = {} THEN call[t].input_ids
       ELSE call[CHOOSE u \in waiting : TRUE].input_ids

\* generate, Tensor::from_slice(&input_ids): the input of a forward pass is
\* the call's own sequence
InputTensor(t) == call[t].input_ids

\* Mutant: with more than one candidate and a temperature above 1.0 the draw
\* falls on the first id of the vocabulary.
SelectSampled(h, ids, temperature, top_k) ==
    IF top_k > 1 /\ temperature > 10 THEN VocabIds[1] ELSE NextTokenId(h, ids)

\* generate, the selection of the next id: the argmax of the last position's
\* logits; `_temperature` and `_top_k` are not read
Select(h, ids, temperature, top_k) == NextTokenId(h, ids)

\* Mutant: the loop never breaks.
NeverEndOfSequence(id) == FALSE

\* generate, `if next_token_id == 50256 { break; }`
IsEndOfSequence(id) == id = EOS

\* Mutant: the guard is forgotten, the mutex stays locked.
GuardLeaked(h) == lock

\* generate, `module` (the MutexGuard of line 117) goes out of scope: on the
\* `?` error returns, on the closure's end and on unwinding
DropGuard(h) == [lock EXCEPT ![h] = 0]

\* Mutant: the guard is taken inside the loop body and dropped at its end.
GuardPerPass(t) == [lock EXCEPT ![call[t].model] = 0]

\* generate, the end of a loop iteration that is followed by another one:
\* `module` is declared before the `for`, so the guard lives on
GuardAfterPass(t) == lock

\* generate, the forward pass returns: the logits are extracted, the argmax
\* is pushed, and the loop breaks on the end-of-sequence id.  An error return,
\* a break and a panic all drop the MutexGuard.
ForwardEnd(t) ==
    /\ call[t].pc = "forward"
    /\ \E out \in ForwardOutcomes :
          LET c == call[t]
              next_token_id == Select(c.model, InputTensor(t), c.temperature, c.top_k)
              pushed == [c EXCEPT !.input_ids = Append(@, next_token_id),
                                  !.iter = @ + 1]
          IN CASE out \in {"tensor", "tuple"} ->
                    IF IsEndOfSequence(next_token_id)
                    THEN /\ call' = [call EXCEPT ![t] = [pushed EXCEPT !.pc = "decode"]]
                         /\ lock' = DropGuard(c.model)
                    ELSE /\ call' = [call EXCEPT ![t] = [pushed EXCEPT !.pc = "loop"]]
                         /\ lock' = GuardAfterPass(t)
               [] out = "tuple_bad" ->
                    /\ call' = [call EXCEPT ![t] =
                          Finish(c, Err("Inference", "Expected tensor as first tuple element"))]
                    /\ lock' = DropGuard(c.model)
               [] out = "other" ->
                    /\ call' = [call EXCEPT ![t] =
                          Finish(c, Err("Inference", "Unexpected model output format"))]
                    /\ lock' = DropGuard(c.model)
               [] out = "error" ->
                    /\ call' = [call EXCEPT ![t] =
                          Finish(c, Err("Inference", "forward failed"))]
                    /\ lock' = DropGuard(c.model)
               [] out = "panic" ->
                    /\ call' = [call EXCEPT ![t].pc = "panicked"]
                    /\ lock' = DropGuard(c.model)
    /\ UNCHANGED WorkerFrame

\* generate, the loop has run max_new_tokens iterations: the closure returns
\* Ok(()) and the MutexGuard is dropped
LoopDone(t) ==
    /\ call[t].pc = "loop"
    /\ call[t].iter >= call[t].max_new_tokens
    /\ call' = [call EXCEPT ![t].pc = "decode"]
    /\ lock' = DropGuard(call[t].model)
    /\ UNCHANGED WorkerFrame

\* generate, tokenizer.decode of the generated ids and the response
GenerateDecode(t) ==
    /\ call[t].pc = "decode"
    /\ \E ok \in BOOLEAN :
          call' = [call EXCEPT ![t] =
                      IF ok THEN Finish(@, Ok(GenerationResponse(@)))
                      ELSE Finish(@, Err("Tokenizer", "decode failed"))]
    /\ UNCHANGED <<WorkerFrame, lock>>

\* --------------------------------------------------------------- handlers
\* enum ServiceError
ErrorKinds ==
    {"ModelLoading", "BadRequest", "Tokenizer", "Inference", "Quantization", "Io", "Other"}

\* Mutant: every error is answered with 500.
StatusCodeInternalOnly(kind) == 500

\* ServiceError::into_response, `let status = match self { ... }`
StatusCode(kind) ==
    CASE kind = "ModelLoading" -> 503
      [] kind = "BadRequest" -> 400
      [] kind \in {"Tokenizer", "Inference", "Quantization"} -> 500
      [] kind = "Io" -> 500
      [] kind = "Other" -> 500

\* The status line of a handler's Result<Json<_>, ServiceError>: Ok(Json(_))
\* is answered with 200, Err(e) with e.into_response()
HttpStatus(r) == IF r.ok THEN 200 ELSE StatusCode(r.kind)

HandlerFrame == <<artifacts, config, lock, evaluation, lastRun, call>>

\* Mutant: POST /generate always takes the quantized path.
HandlerGenerateNoFallback(t) ==
    /\ pc[t] = "idle"
    /\ \E req \in Requests : request' = [request EXCEPT ![t] = req]
    /\ op' = [op EXCEPT ![t] = "generate"]
    /\ pc' = [pc EXCEPT ![t] = "registry_quantized"]
    /\ UNCHANGED <<HandlerFrame, bench, response>>

\* server::generate_quantized (POST /generate): the quantized model if there
\* is one, otherwise the baseline
HandlerGenerate(t) ==
    /\ pc[t] = "idle"
    /\ \E req \in Requests : request' = [request EXCEPT ![t] = req]
    /\ op' = [op EXCEPT ![t] = "generate"]
    /\ pc' = [pc EXCEPT ![t] =
                 IF HasQuantized THEN "registry_quantized" ELSE "registry_baseline"]
    /\ UNCHANGED <<HandlerFrame, bench, response>>

\* server::generate_quantized for a request that sets temperature and top_k
HandlerGenerateSampled(t) ==
    /\ pc[t] = "idle"
    /\ \E req \in SampledRequests : request' = [request EXCEPT ![t] = req]
    /\ op' = [op EXCEPT ![t] = "generate"]
    /\ pc' = [pc EXCEPT ![t] =
                 IF HasQuantized THEN "registry_quantized" ELSE "registry_baseline"]
    /\ UNCHANGED <<HandlerFrame, bench, response>>

\* Mutant: the handler leaves the presence check to the registry.
HandlerGenerateBaselineNoCheck(t) ==
    /\ pc[t] = "idle"
    /\ op' = [op EXCEPT ![t] = "generate_baseline"]
    /\ \E req \in Requests : request' = [request EXCEPT ![t] = req]
    /\ pc' = [pc EXCEPT ![t] = "registry_baseline"]
    /\ UNCHANGED <<HandlerFrame, bench, response>>

\* server::generate_baseline (POST /generate/baseline)
HandlerGenerateBaseline(t) ==
    /\ pc[t] = "idle"
    /\ op' = [op EXCEPT ![t] = "generate_baseline"]
    /\ IF ~HasBaseline
       THEN /\ pc' = [pc EXCEPT ![t] = "done"]
            /\ response' = [response EXCEPT ![t] =
                               Some(Err("BadRequest", "baseline model not available"))]
            /\ request' = request
       ELSE /\ \E req \in Requests : request' = [request EXCEPT ![t] = req]
            /\ pc' = [pc EXCEPT ![t] = "registry_baseline"]
            /\ response' = response
    /\ UNCHANGED <<HandlerFrame, bench>>

\* The response is sent; the task is free for the next request.
Reset(t) ==
    /\ pc[t] = "done"
    /\ pc' = [pc EXCEPT ![t] = "idle"]
    /\ op' = [op EXCEPT ![t] = "none"]
    /\ response' = [response EXCEPT ![t] = None]
    /\ bench' = [bench EXCEPT ![t] = NoBench]
    /\ UNCHANGED <<HandlerFrame, request>>

\* ------------------------------------------------------------- evaluation
\* A JSON value of the sample file: a field is absent, a string, or some
\* other value (a number); an item is an object or some other value.
Absent == [kind |-> "absent", s |-> <<>>]
Number == [kind |-> "number", s |-> <<>>]
Str(s) == [kind |-> "string", s |-> s]
Object(p, r) == [object |-> TRUE, prompt |-> p, reference_substring |-> r]
NonObject == [object |-> FALSE, prompt |-> Absent, reference_substring |-> Absent]

\* serde_json::Value::get(key) followed by as_str()
GetStr(item, key) ==
    IF item.object /\ item[key].kind = "string" THEN Some(item[key].s) ELSE None

\* What read_to_string + serde_json::from_str give: no text at all (the file
\* cannot be read), text that is no JSON, a JSON value that is no array, or an
\* array of items.
Unreadable == [kind |-> "unreadable", items |-> <<>>]
InvalidJson == [kind |-> "invalid", items |-> <<>>]
NotArray == [kind |-> "value", items |-> <<>>]
Array(items) == [kind |-> "array", items |-> items]

BenchmarkSample(p, r) == [prompt |-> p, reference_substring |-> r]

\* load_samples_from_path, the loop over the items from index idx on (zero
\* based, as enumerate() counts); acc holds the samples read so far.
RECURSIVE LoadItems(_, _, _)
LoadItems(items, idx, acc) ==
    IF idx >= Len(items) THEN Ok(acc)
    ELSE LET item == items[idx + 1]
             prompt == GetStr(item, "prompt")
         IN IF IsNone(prompt)
            THEN Err("BadRequest",
                     "benchmark item " \o ToString(idx) \o " missing string field 'prompt'")
            ELSE LoadItems(items, idx + 1,
                           Append(acc, BenchmarkSample(Unwrap(prompt),
                                                       GetStr(item, "reference_substring"))))

\* load_samples_from_path
LoadSamplesFromPath(file) ==
    CASE file.kind = "unreadable" -> Err("Io", "read_to_string failed")
      [] file.kind = "invalid" -> Err("BadRequest", "invalid benchmark file")
      [] file.kind = "array" -> LoadItems(file.items, 0, <<>>)
      [] OTHER -> Err("BadRequest", "benchmark file must be a JSON array")

\* fallback_samples: three prompts, each with a reference substring.
FallbackSamples ==
    <<BenchmarkSample(<<"a">>, Some(<<"a">>)),
      BenchmarkSample(<<"b">>, Some(<<"b">>)),
      BenchmarkSample(<<"a", "b">>, Some(<<"a", "b">>))>>

\* The contents the configured sample file can have when a run reads it.
EvalFiles ==
    {Unreadable, InvalidJson, NotArray, Array(<<>>),
     Array(<<Object(Str(<<"a">>), Str(<<"A">>))>>),
     Array(<<Object(Str(<<" ">>), Absent)>>),
     Array(<<Object(Str(<<" ", "b">>), Absent), Object(Str(<<"z">>), Number)>>),
     Array(<<Object(Str(<<"a">>), Absent), NonObject>>),
     Array(<<Object(Str(<<"a">>), Absent), Object(Str(<<"z">>), Absent),
             Object(Number, Str(<<"a">>))>>)}

\* server::run_evaluation up to the call of run_benchmark: the samples come
\* from the configured file, or are the built-in ones
HandlerRunEvaluation(t) ==
    /\ pc[t] = "idle"
    /\ op' = [op EXCEPT ![t] = "evaluate"]
    /\ \E file \in EvalFiles :
          LET loaded == IF config.eval_prompts_path
                        THEN LoadSamplesFromPath(file)
                        ELSE Ok(FallbackSamples)
          IN IF loaded.ok
             THEN /\ bench' = [bench EXCEPT ![t] = [NoBench EXCEPT !.samples = loaded.val]]
                  /\ pc' = [pc EXCEPT ![t] = "run_benchmark"]
                  /\ response' = response
             ELSE /\ bench' = bench
                  /\ pc' = [pc EXCEPT ![t] = "done"]
                  /\ response' = [response EXCEPT ![t] = Some(loaded)]
    /\ UNCHANGED <<HandlerFrame, request>>

\* Mutant: the sample list is not checked.
RunBenchmarkNoCheck(t) ==
    /\ pc[t] = "run_benchmark"
    /\ pc' = [pc EXCEPT ![t] = "bench_loop"]
    /\ bench' = [bench EXCEPT ![t].idx = 1]
    /\ UNCHANGED <<HandlerFrame, op, request, response>>

\* run_benchmark, entry: an empty sample list is a BadRequest
RunBenchmark(t) ==
    /\ pc[t] = "run_benchmark"
    /\ IF bench[t].samples = <<>>
       THEN /\ pc' = [pc EXCEPT ![t] = "done"]
            /\ response' = [response EXCEPT ![t] =
                  Some(Err("BadRequest", "at least one benchmark sample is required"))]
            /\ bench' = [bench EXCEPT ![t] = NoBench]
       ELSE /\ pc' = [pc EXCEPT ![t] = "bench_loop"]
            /\ bench' = [bench EXCEPT ![t].idx = 1]
            /\ response' = response
    /\ UNCHANGED <<HandlerFrame, op, request>>

\* The request run_benchmark builds for a sample: the process-wide defaults.
BenchRequest(sample) ==
    [prompt |-> sample.prompt, max_new_tokens |-> Some(config.max_new_tokens),
     temperature |-> Some(config.temperature), top_k |-> Some(config.top_k)]

\* run_benchmark, `for sample in samples`: the next sample's quantized
\* generation, or the report when the samples are used up
BenchNext(t) ==
    /\ pc[t] = "bench_loop"
    /\ IF bench[t].idx <= Len(bench[t].samples)
       THEN /\ request' = [request EXCEPT ![t] = BenchRequest(bench[t].samples[bench[t].idx])]
            /\ pc' = [pc EXCEPT ![t] = "registry_quantized"]
       ELSE /\ request' = request
            /\ pc' = [pc EXCEPT ![t] = "eval_write"]
    /\ UNCHANGED <<HandlerFrame, op, bench, response>>

\* run_benchmark, after the quantized generation: the baseline generation
\* if registry.has_baseline(), otherwise no baseline response
BenchBaseline(t) ==
    /\ pc[t] = "bench_baseline"
    /\ IF HasBaseline
       THEN /\ request' = [request EXCEPT ![t] = BenchRequest(bench[t].samples[bench[t].idx])]
            /\ pc' = [pc EXCEPT ![t] = "registry_baseline"]
            /\ UNCHANGED <<bench, response>>
       ELSE /\ PushReport(t, None)
            /\ request' = request
    /\ UNCHANGED <<HandlerFrame, op>>

\* Mutant: a report already cached is kept.
CacheReplaceKeepFirst(report) ==
    evaluation' = IF IsSome(evaluation) THEN evaluation ELSE Some(report)

\* AppState.evaluation.write().replace(report)
CacheReplace(report) == evaluation' = Some(report)

\* server::run_evaluation after run_benchmark returned Ok: the cache is
\* replaced under the write lock and the report is returned
EvalWrite(t) ==
    /\ pc[t] = "eval_write"
    /\ LET report == EvaluationReport(bench[t].reports)
       IN /\ CacheReplace(report)
          /\ lastRun' = Some(report)
          /\ response' = [response EXCEPT ![t] = Some(Ok(report))]
    /\ pc' = [pc EXCEPT ![t] = "done"]
    /\ bench' = [bench EXCEPT ![t] = [NoBench EXCEPT !.samples = bench[t].samples]]
    /\ UNCHANGED <<artifacts, config, lock, op, request, call>>

\* Mutant: the difference is taken without saturation.
FromMetadataWrapping(quantized, baseline) ==
    [baseline_size_bytes |->
        IF IsSome(baseline) THEN Some(Unwrap(baseline).size_bytes) ELSE None,
     quantized_size_bytes |-> quantized.size_bytes,
     size_reduction_percent |->
        IF IsNone(baseline) THEN None
        ELSE LET b == Unwrap(baseline).size_bytes
                 diff == b - quantized.size_bytes
             IN IF b = 0 THEN Some(<<0, 1>>) ELSE Some(<<diff * 100, b>>)]

\* QuantizationSummary::from_metadata; the percentage is the fraction
\* <<numerator, denominator>>.
FromMetadata(quantized, baseline) ==
    [baseline_size_bytes |->
        IF IsSome(baseline) THEN Some(Unwrap(baseline).size_bytes) ELSE None,
     quantized_size_bytes |-> quantized.size_bytes,
     size_reduction_percent |->
        IF IsNone(baseline) THEN None
        ELSE LET b == Unwrap(baseline).size_bytes
                 diff == IF b >= quantized.size_bytes THEN b - quantized.size_bytes ELSE 0
             IN IF b = 0 THEN Some(<<0, 1>>) ELSE Some(<<diff * 100, b>>)]

\* evaluation.read().clone()
CacheRead == evaluation

\* Mutant: the cache is locked for the whole of an evaluation run, so a query
\* waits for the run to end.
HandlerMetadataBlocked(t) ==
    /\ pc[t] = "idle"
    /\ \A u \in Tasks : op[u] = "evaluate" => pc[u] = "done"
    /\ op' = [op EXCEPT ![t] = "metadata"]
    /\ pc' = [pc EXCEPT ![t] = "done"]
    /\ LET m == RegistryMetadata
       IN response' = [response EXCEPT ![t] =
             Some(Ok([quantized |-> m.quantized,
                      baseline |-> m.baseline,
                      quantization |->
                          IF IsSome(m.quantized)
                          THEN Some(FromMetadata(Unwrap(m.quantized), m.baseline))
                          ELSE None,
                      evaluation |-> CacheRead]))]
    /\ UNCHANGED <<HandlerFrame, request, bench>>

\* server::metadata (GET /metadata)
HandlerMetadata(t) ==
    /\ pc[t] = "idle"
    /\ op' = [op EXCEPT ![t] = "metadata"]
    /\ pc' = [pc EXCEPT ![t] = "done"]
    /\ LET m == RegistryMetadata
       IN response' = [response EXCEPT ![t] =
             Some(Ok([quantized |-> m.quantized,
                      baseline |-> m.baseline,
                      quantization |->
                          IF IsSome(m.quantized)
                          THEN Some(FromMetadata(Unwrap(m.quantized), m.baseline))
                          ELSE None,
                      evaluation |-> CacheRead]))]
    /\ UNCHANGED <<HandlerFrame, request, bench>>

GenNext ==
    \E t \in Tasks :
        \/ HandlerGenerate(t)
        \/ HandlerGenerateBaseline(t)
        \/ RegistryGenerateQuantized(t)
        \/ RegistryGenerateBaseline(t)
        \/ GenerateValidate(t)
        \/ GenerateEncode(t)
        \/ LockModule(t)
        \/ ForwardBegin(t)
        \/ ForwardEnd(t)
        \/ LoopDone(t)
        \/ GenerateDecode(t)
        \/ AwaitJoin(t)
        \/ Reset(t)

GenSpec == Init /\ [][GenNext]_vars

Next ==
    \E t \in Tasks :
        \/ HandlerGenerate(t)
        \/ HandlerGenerateBaseline(t)
        \/ HandlerMetadata(t)
        \/ HandlerRunEvaluation(t)
        \/ RunBenchmark(t)
        \/ BenchNext(t)
        \/ BenchBaseline(t)
        \/ EvalWrite(t)
        \/ RegistryGenerateQuantized(t)
        \/ RegistryGenerateBaseline(t)
        \/ GenerateValidate(t)
        \/ GenerateEncode(t)
        \/ LockModule(t)
        \/ ForwardBegin(t)
        \/ ForwardEnd(t)
        \/ LoopDone(t)
        \/ GenerateDecode(t)
        \/ AwaitJoin(t)
        \/ Reset(t)

Spec == Init /\ [][Next]_vars

\* The steps of a request's caller after the dispatch, and of its worker other
\* than the acquisition of the mutex; at most one of each is enabled at a time.
CallerStep(t) ==
    \/ RegistryGenerateQuantized(t)
    \/ RegistryGenerateBaseline(t)
    \/ AwaitJoin(t)

WorkerStep(t) ==
    \/ GenerateValidate(t)
    \/ GenerateEncode(t)
    \/ ForwardBegin(t)
    \/ ForwardEnd(t)
    \/ LoopDone(t)
    \/ GenerateDecode(t)

\* The scheduling the runtime gives: a worker on the blocking pool and a
\* resumable handler keep running (weak fairness on their steps, a forward
\* pass returns), and a worker waiting for a mutex that is released again and
\* again gets it in the end (strong fairness on the acquisition).  Clients
\* are not obliged to send requests.
Fairness ==
    \A t \in Tasks :
        /\ WF_vars(CallerStep(t))
        /\ WF_vars(WorkerStep(t))
        /\ SF_vars(LockModule(t))

\* POST /generate on a store with one handle, where every request meets every
\* other at the same mutex: the store load yields, and one that holds the
\* quantized handle only.
OneHandleInit ==
    /\ Init
    /\ artifacts.quantized # artifacts.baseline
    /\ ~config.eval_prompts_path

FairNext ==
    \E t \in Tasks :
        \/ HandlerGenerate(t)
        \/ RegistryGenerateQuantized(t)
        \/ RegistryGenerateBaseline(t)
        \/ GenerateValidate(t)
        \/ GenerateEncode(t)
        \/ LockModule(t)
        \/ ForwardBegin(t)
        \/ ForwardEnd(t)
        \/ LoopDone(t)
        \/ GenerateDecode(t)
        \/ AwaitJoin(t)
        \/ Reset(t)

FairSpec == OneHandleInit /\ [][FairNext]_vars /\ Fairness

\* POST /generate alone, with requests that choose temperature and top_k.
SamplingNext ==
    \E t \in Tasks :
        \/ HandlerGenerateSampled(t)
        \/ RegistryGenerateQuantized(t)
        \/ RegistryGenerateBaseline(t)
        \/ GenerateValidate(t)
        \/ GenerateEncode(t)
        \/ LockModule(t)
        \/ ForwardBegin(t)
        \/ ForwardEnd(t)
        \/ LoopDone(t)
        \/ GenerateDecode(t)
        \/ AwaitJoin(t)
        \/ Reset(t)

SamplingSpec == Init /\ [][SamplingNext]_vars

\* ------------------------------------------- the functions on their own
\* One call of a function per behaviour: its arguments are drawn from the
\* sets below and its result is what the caller reads in `response`.
\* The sizes fs::metadata can report for the two artifacts.
SizeValues == {0, 1, 2, 900, 1000}

\* A ModelMetadata whose size_bytes is n.
MetadataOfSize(h, n) == [Metadata(h) EXCEPT !.size_bytes = n]

\* QuantizationSummary::from_metadata applied to a quantized metadata of q
\* bytes and an optional baseline metadata of Unwrap(b) bytes.
FromMetadataCall(q, b) ==
    /\ response = [t \in Tasks |-> None]
    /\ response' =
          [t \in Tasks |->
              Some([fn |-> "from_metadata", quantized |-> q, baseline |-> b,
                    summary |->
                       FromMetadata(MetadataOfSize("quantized", q),
                                    IF IsSome(b)
                                    THEN Some(MetadataOfSize("baseline", Unwrap(b)))
                                    ELSE None)])]
    /\ UNCHANGED <<artifacts, config, lock, evaluation, lastRun, op, pc, request, call, bench>>

\* The values a field of an item of the sample file can have, and the items.
FieldValues == {Absent, Number, Str(<<"a">>)}
JsonItems == {NonObject} \cup {Object(p, r) : p \in FieldValues, r \in FieldValues}

\* The sample files: arrays of at most MaxItems items, and the three files
\* that hold no array.
MaxItems == 3
JsonFiles ==
    {Unreadable, InvalidJson, NotArray}
        \cup {Array(items) : items \in UNION {[1..n -> JsonItems] : n \in 0..MaxItems}}

\* load_samples_from_path applied to a file.
LoadSamplesCall(file) ==
    /\ response = [t \in Tasks |-> None]
    /\ response' =
          [t \in Tasks |->
              Some([fn |-> "load_samples_from_path", file |-> file,
                    result |-> LoadSamplesFromPath(file)])]
    /\ UNCHANGED <<artifacts, config, lock, evaluation, lastRun, op, pc, request, call, bench>>

FunctionNext ==
    \/ \E q \in SizeValues, b \in {None} \cup {Some(n) : n \in SizeValues} :
          FromMetadataCall(q, b)
    \/ \E file \in JsonFiles : LoadSamplesCall(file)

FunctionSpec == Init /\ [][FunctionNext]_vars

\* ================================================================ claims
Generated(c) == SubSeq(c.input_ids, c.prompt_token_len + 1, Len(c.input_ids))

\* C1: at most one request is inside a forward pass on a handle's module at
\* any time, and whoever is inside the decode loop holds that handle's mutex.
C1_OneForwardPassPerHandle ==
    \A t \in Tasks :
        call[t].pc \in {"loop", "forward"} =>
            /\ lock[call[t].model] = t
            /\ \A u \in Tasks \ {t} :
                  call[u].pc \in {"loop", "forward"} => call[u].model # call[t].model

\* C1 witness: one request is inside a forward pass while another request for
\* the same handle waits for the mutex.
C1_Witness ==
    \E t \in Tasks, u \in Tasks :
        /\ t # u
        /\ call[t].pc = "forward"
        /\ call[u].pc = "lock"
        /\ call[u].model = call[t].model

\* The decode loop run alone: what generate(prompt, n) appends to ids when no
\* other request exists.
RECURSIVE AloneLoop(_, _, _)
AloneLoop(h, ids, n) ==
    IF n = 0 THEN ids
    ELSE LET id == NextTokenId(h, ids)
         IN IF id = EOS THEN Append(ids, id) ELSE AloneLoop(h, Append(ids, id), n - 1)

AloneIds(c) ==
    AloneLoop(c.model, IF Encode(c.prompt) = <<>> THEN <<0>> ELSE Encode(c.prompt),
              c.max_new_tokens)

IsPrefix(a, b) == Len(a) <= Len(b) /\ SubSeq(b, 1, Len(a)) = a

\* C2: under every interleaving a call's token sequence grows along the
\* sequence the same call produces alone, and its response carries exactly the
\* completion and tokens_generated of the call run alone.
C2_NoInterleaving ==
    \A t \in Tasks :
        LET c == call[t] IN
        /\ c.pc \in {"lock", "loop", "forward", "decode"} =>
              IsPrefix(c.input_ids, AloneIds(c))
        /\ c.pc = "decode" => c.input_ids = AloneIds(c)
        /\ (c.pc = "finished" /\ Unwrap(c.result).ok) =>
              /\ c.input_ids = AloneIds(c)
              /\ Unwrap(c.result).val.tokens_generated
                    = Len(AloneIds(c)) - c.prompt_token_len
              /\ Unwrap(c.result).val.completion
                    = Decode(SubSeq(AloneIds(c), c.prompt_token_len + 1, Len(AloneIds(c))))

\* C2 witness: a call has finished with a non-empty completion on a handle on
\* which another call, with a different prompt, is in the middle of decoding.
C2_Witness ==
    \E t \in Tasks, u \in Tasks :
        /\ t # u
        /\ call[t].pc = "finished"
        /\ Unwrap(call[t].result).ok
        /\ Unwrap(call[t].result).val.tokens_generated > 1
        /\ call[u].model = call[t].model
        /\ call[u].prompt # call[t].prompt
        /\ call[u].pc = "forward"
        /\ call[u].passes > 1

\* C3 (as claimed): run_benchmark with a non-empty sample list on the
\* registry ModelArtifacts::load produces, with no tokenizer, forward-pass or
\* worker failure, returns Ok with one SampleReport per sample, in input order.
C3_BenchmarkReturnsReports ==
    \A t \in Tasks :
        (/\ op[t] = "evaluate"
         /\ pc[t] = "done"
         /\ artifacts = Load
         /\ bench[t].samples # <<>>)
        => LET r == Unwrap(response[t]) IN
           \/ ~r.ok /\ r.kind \in {"Tokenizer", "Inference"}
           \/ /\ r.ok
              /\ Len(r.val.samples) = Len(bench[t].samples)
              /\ \A i \in 1..Len(bench[t].samples) :
                    r.val.samples[i].prompt = bench[t].samples[i].prompt

\* The handle POST /generate dispatches to.
AutoRoute == IF HasQuantized THEN "quantized" ELSE "baseline"

NotAvailableMessages ==
    {"Quantized model not available", "baseline model not available",
     "model is still loading"}

\* C4: POST /generate runs on the quantized handle when there is one and on
\* the baseline handle otherwise; with only a baseline handle it never answers
\* "not available", and a response carries the metadata of the handle used.
C4_AutoRouted ==
    \A t \in Tasks :
        op[t] = "generate" =>
            /\ pc[t] = "registry_quantized" => HasQuantized
            /\ pc[t] = "registry_baseline" => ~HasQuantized
            /\ call[t].pc # "none" => call[t].model = AutoRoute
            /\ (call[t].pc = "finished" /\ Unwrap(call[t].result).ok) =>
                  Unwrap(call[t].result).val.model = Metadata(call[t].model)
            /\ pc[t] = "done" =>
                  LET r == Unwrap(response[t]) IN
                  /\ r.ok => r.val.model = Metadata(AutoRoute)
                  /\ (~r.ok /\ ~HasQuantized /\ HasBaseline) =>
                        r.msg \notin NotAvailableMessages

\* C4 witness: with no quantized handle POST /generate has answered with a
\* completion from the baseline handle.
C4_Witness ==
    \E t \in Tasks :
        /\ op[t] = "generate"
        /\ pc[t] = "done"
        /\ ~HasQuantized
        /\ Unwrap(response[t]).ok
        /\ Unwrap(response[t]).val.model.name = "baseline"
        /\ Unwrap(response[t]).val.tokens_generated > 0

\* C5: generate_quantized without a quantized handle returns the "not
\* available" error, generate_baseline without a baseline handle returns
\* ModelLoading; either does so for every request, spawning no worker and
\* touching no lock.
C5_AbsentHandleFails ==
    [][\A t \in Tasks :
          /\ (pc[t] = "registry_quantized" /\ ~HasQuantized /\ pc'[t] # pc[t]) =>
                /\ pc'[t] = "done"
                /\ response'[t] = Some(Err("Other", "Quantized model not available"))
                /\ call' = call
                /\ lock' = lock
          /\ (pc[t] = "registry_baseline" /\ ~HasBaseline /\ pc'[t] # pc[t]) =>
                /\ pc'[t] = "done"
                /\ response'[t] = Some(Err("ModelLoading", "model is still loading"))
                /\ call' = call
                /\ lock' = lock]_vars

\* C5 witness: with no handle at all, one request has got the "not available"
\* error of generate_quantized, and generate_baseline is about to answer a
\* request with an empty prompt and has answered none with a worker.
C5_Witness ==
    \E t \in Tasks, u \in Tasks :
        /\ ~HasQuantized /\ ~HasBaseline
        /\ pc[t] = "done"
        /\ response[t] = Some(Err("Other", "Quantized model not available"))
        /\ pc[u] = "registry_baseline"
        /\ request[u].prompt = <<>>
        /\ \A v \in Tasks : call[v].pc = "none"

\* The report of the evaluation run task t is about to complete.
PendingReport(t) == EvaluationReport(bench[t].reports)

\* C6: the cache is absent until an evaluation run succeeds and afterwards
\* holds the whole report of the last run that succeeded; only such a run
\* changes it, and a metadata query returns it as it is.
C6_CacheHoldsLastRun ==
    [][/\ evaluation = lastRun
       /\ evaluation' = lastRun'
       /\ evaluation' # evaluation =>
             \E t \in Tasks :
                /\ pc[t] = "eval_write"
                /\ pc'[t] = "done"
                /\ evaluation' = Some(PendingReport(t))
                /\ response'[t] = Some(Ok(PendingReport(t)))
       /\ \A t \in Tasks :
             (pc[t] = "idle" /\ op'[t] = "metadata") =>
                Unwrap(response'[t]).val.evaluation = lastRun]_vars

\* C6 witness: a metadata query has returned the report of one run, and a
\* later run has replaced it in the cache by a different report.
C6_Witness ==
    \E t \in Tasks :
        /\ op[t] = "metadata"
        /\ pc[t] = "done"
        /\ IsSome(Unwrap(response[t]).val.evaluation)
        /\ IsSome(evaluation)
        /\ evaluation # Unwrap(response[t]).val.evaluation

\* Empty or whitespace only.
IsBlank(text) == \A i \in 1..Len(text) : text[i] \in Whitespace

\* C7: a generate call with an empty or whitespace-only prompt ends in
\* BadRequest, having encoded nothing, never taken the module lock and run no
\* forward pass.
C7_BlankPromptRejected ==
    \A t \in Tasks :
        (call[t].pc # "none" /\ IsBlank(call[t].prompt)) =>
            /\ call[t].pc \in {"spawned", "finished"}
            /\ call[t].pc = "finished" =>
                  call[t].result = Some(Err("BadRequest", "prompt must not be empty"))
            /\ ~call[t].encoded
            /\ ~call[t].locked
            /\ call[t].passes = 0
            /\ call[t].input_ids = <<>>
            /\ lock[call[t].model] # t

\* C7 witness: a whitespace-only prompt was rejected while another request
\* held the lock of the same handle.
C7_Witness ==
    \E t \in Tasks :
        /\ call[t].pc = "finished"
        /\ call[t].prompt = <<" ">>
        /\ ~Unwrap(call[t].result).ok
        /\ Unwrap(call[t].result).kind = "BadRequest"
        /\ lock[call[t].model] \notin {0, t}

\* C8 (as claimed): with max_new_tokens = 0 generation returns, for every
\* prompt, a response with tokens_generated = 0 and an empty completion after
\* no forward pass (a tokenizer failure aside).
C8_ZeroTokensAnyPrompt ==
    \A t \in Tasks :
        (call[t].pc = "finished" /\ call[t].max_new_tokens = 0) =>
            LET r == Unwrap(call[t].result) IN
            \/ ~r.ok /\ r.kind = "Tokenizer"
            \/ /\ r.ok
               /\ r.val.tokens_generated = 0
               /\ r.val.completion = <<>>
               /\ call[t].passes = 0

\* C8 (amended): with max_new_tokens = 0 no forward pass is run; a prompt
\* that is not blank gets, unless the tokenizer fails, a response with
\* tokens_generated = 0 and an empty completion; a blank prompt gets
\* BadRequest.
C8_ZeroTokens ==
    \A t \in Tasks :
        (call[t].pc # "none" /\ call[t].max_new_tokens = 0) =>
            /\ call[t].passes = 0
            /\ call[t].pc # "forward"
            /\ call[t].pc = "finished" =>
                  LET r == Unwrap(call[t].result) IN
                  IF IsBlank(call[t].prompt)
                  THEN ~r.ok /\ r.kind = "BadRequest"
                  ELSE \/ ~r.ok /\ r.kind = "Tokenizer"
                       \/ /\ r.ok
                          /\ r.val.tokens_generated = 0
                          /\ r.val.completion = <<>>

\* C8 witness: a call with max_new_tokens = 0 and a prompt that is not blank
\* took the lock and returned an empty completion.
C8_Witness ==
    \E t \in Tasks :
        /\ call[t].pc = "finished"
        /\ call[t].max_new_tokens = 0
        /\ call[t].locked
        /\ Unwrap(call[t].result).ok
        /\ Unwrap(call[t].result).val.tokens_generated = 0

HasEos(c) == \E k \in 1..Len(Generated(c)) : Generated(c)[k] = EOS

\* C9 (as claimed): once the end-of-sequence id has been selected no further
\* forward pass runs, decoding has stopped before max_new_tokens ids were
\* generated, and tokens_generated counts the ids up to and including it.
C9_EosStopsBeforeBound ==
    \A t \in Tasks :
        HasEos(call[t]) =>
            LET c == call[t] IN
            /\ c.pc \in {"decode", "finished"}
            /\ c.passes = Len(Generated(c))
            /\ Generated(c)[Len(Generated(c))] = EOS
            /\ Len(Generated(c)) < c.max_new_tokens
            /\ (c.pc = "finished" /\ Unwrap(c.result).ok) =>
                  Unwrap(c.result).val.tokens_generated = Len(Generated(c))

\* C9 (amended): once the end-of-sequence id has been selected no further
\* forward pass runs, the id is the last and the only such one generated,
\* at most max_new_tokens ids were generated, and tokens_generated counts the
\* ids up to and including it.
C9_EosStops ==
    \A t \in Tasks :
        HasEos(call[t]) =>
            LET c == call[t] IN
            /\ c.pc \in {"decode", "finished"}
            /\ c.passes = Len(Generated(c))
            /\ \A k \in 1..Len(Generated(c)) :
                  Generated(c)[k] = EOS <=> k = Len(Generated(c))
            /\ Len(Generated(c)) <= c.max_new_tokens
            /\ (c.pc = "finished" /\ Unwrap(c.result).ok) =>
                  Unwrap(c.result).val.tokens_generated = Len(Generated(c))

\* C9 witness: a call stopped on the end-of-sequence id with fewer than
\* max_new_tokens ids generated and returned that count.
C9_Witness ==
    \E t \in Tasks :
        /\ call[t].pc = "finished"
        /\ HasEos(call[t])
        /\ Unwrap(call[t].result).ok
        /\ Unwrap(call[t].result).val.tokens_generated < call[t].max_new_tokens

\* C10: run_benchmark with an empty sample list returns BadRequest with no
\* generation dispatched, and that evaluation run leaves the cache as it was.
C10_EmptySamplesRejected ==
    [][\A t \in Tasks :
          /\ (pc[t] = "run_benchmark" /\ bench[t].samples = <<>> /\ pc'[t] # pc[t]) =>
                /\ pc'[t] = "done"
                /\ response'[t] =
                      Some(Err("BadRequest", "at least one benchmark sample is required"))
                /\ request' = request
                /\ call' = call
                /\ lock' = lock
                /\ evaluation' = evaluation
          /\ (pc[t] = "idle" /\ op'[t] = "evaluate") => evaluation' = evaluation]_vars

\* C10 witness: an evaluation run over an empty sample list has ended in
\* BadRequest while the cache holds the report of an earlier run.
C10_Witness ==
    \E t \in Tasks :
        /\ op[t] = "evaluate"
        /\ pc[t] = "done"
        /\ response[t] =
              Some(Err("BadRequest", "at least one benchmark sample is required"))
        /\ IsSome(evaluation)

\* A request is between two forward passes: one has returned and the loop
\* will run another.
BetweenPasses(t) ==
    /\ call[t].pc = "loop"
    /\ call[t].passes >= 1
    /\ call[t].iter < call[t].max_new_tokens

\* C11 as stated: between two consecutive forward passes of one request the
\* lock of its handle is free, so another request on that handle can take it.
C11_LockFreeBetweenPasses ==
    \A t \in Tasks : BetweenPasses(t) => lock[call[t].model] = 0

\* C11: a request acquires the lock of its handle once, before its first
\* forward pass, keeps it between consecutive forward passes, and releases it
\* only when its loop is over; a request that waits for the same handle stays
\* waiting while the holder is between two passes.
C11_LockHeldAcrossLoop ==
    [][\A t \in Tasks :
          LET h == call[t].model
          IN /\ (h \in Handles /\ lock[h] # t /\ lock'[h] = t) =>
                    (call[t].pc = "lock" /\ call[t].passes = 0)
             /\ (call[t].pc = "forward" /\ call'[t].pc = "loop") =>
                    (lock[h] = t /\ lock'[h] = t)
             /\ (h \in Handles /\ lock[h] = t /\ lock'[h] # t) =>
                    (lock'[h] = 0 /\ call'[t].pc \notin {"lock", "loop", "forward"})
             /\ BetweenPasses(t) =>
                    \A u \in Tasks \ {t} :
                        (call[u].pc = "lock" /\ call[u].model = h /\ call'[t] = call[t])
                            => call'[u] = call[u]]_vars

\* C11 witness: a request is between two forward passes and holds the lock
\* while another request waits for the same handle.
C11_Witness ==
    \E t \in Tasks, u \in Tasks :
        /\ BetweenPasses(t)
        /\ lock[call[t].model] = t
        /\ call[u].pc = "lock"
        /\ call[u].model = call[t].model

\* C12: with both handles present a request on one handle is never blocked
\* by a request on the other: the lock of a handle is only ever held by a
\* request that runs on that handle, and a request waiting for a free handle
\* can take its lock whatever the state of the other handle.
C12_HandlesIndependent ==
    (artifacts.quantized /\ artifacts.baseline) =>
        /\ \A h \in Handles :
              lock[h] # 0 => call[lock[h]].model = h
        /\ \A t \in Tasks :
              (call[t].pc = "lock" /\ lock[call[t].model] = 0) => ENABLED LockModule(t)

\* C12 witness: one worker is inside a forward pass on the baseline handle
\* while another is inside a forward pass on the quantized handle.
C12_Witness ==
    /\ artifacts.quantized
    /\ artifacts.baseline
    /\ \E t \in Tasks, u \in Tasks :
          /\ call[t].pc = "forward" /\ call[t].model = "baseline"
          /\ call[u].pc = "forward" /\ call[u].model = "quantized"
          /\ lock["baseline"] = t
          /\ lock["quantized"] = u

\* A generation request that has failed: its worker panicked or returned an
\* error, before or after the handler picked the failure up.
Failed(t) ==
    \/ call[t].pc = "panicked"
    \/ call[t].pc = "finished" /\ ~Unwrap(call[t].result).ok
    \/ /\ pc[t] = "done"
       /\ op[t] \in {"generate", "generate_baseline"}
       /\ ~Unwrap(response[t]).ok

\* C13: a failed generation request holds no lock: a lock is only ever held by
\* a request inside its decode loop; a request that waits for the handle of a
\* failed one can take the lock, and every request that succeeds next to a
\* failed one returns the response it returns when run alone.
C13_FailureLeavesHandleUsable ==
    /\ \A h \in Handles :
          lock[h] # 0 => call[lock[h]].pc \in {"loop", "forward"}
    /\ \A t \in Tasks : Failed(t) =>
          \A u \in Tasks \ {t} :
              /\ (call[u].pc = "lock" /\ \A v \in Tasks \ {t} : lock[call[u].model] # v)
                    => ENABLED LockModule(u)
              /\ (call[u].pc = "finished" /\ Unwrap(call[u].result).ok) =>
                    Unwrap(call[u].result).val =
                        GenerationResponse([call[u] EXCEPT !.input_ids = AloneIds(call[u])])

\* C13 witness: a request failed inside a forward pass, holding the lock, and
\* another request on the same handle has since taken the lock and finished
\* with a response.
C13_Witness ==
    \E t \in Tasks, u \in Tasks :
        /\ call[t].pc = "finished"
        /\ call[t].locked
        /\ ~Unwrap(call[t].result).ok
        /\ Unwrap(call[t].result).kind = "Inference"
        /\ call[u].model = call[t].model
        /\ call[u].pc = "finished"
        /\ call[u].passes > 0
        /\ Unwrap(call[u].result).ok

\* C14: the status of a failure is a function of its error kind alone:
\* ModelLoading is answered with 503, BadRequest with 400, every other kind
\* with 500; every response a handler returns carries 200 exactly when it is
\* a success and otherwise the status of its error kind.
C14_StatusByErrorKind ==
    /\ \A k \in ErrorKinds :
          /\ StatusCode(k) \in {503, 400, 500}
          /\ StatusCode(k) = 503 <=> k = "ModelLoading"
          /\ StatusCode(k) = 400 <=> k = "BadRequest"
          /\ StatusCode(k) = 500 <=>
                k \in {"Tokenizer", "Inference", "Quantization", "Io", "Other"}
    /\ \A t \in Tasks : pc[t] = "done" =>
          LET r == Unwrap(response[t])
          IN /\ r.ok <=> HttpStatus(r) = 200
             /\ ~r.ok =>
                   /\ r.kind \in ErrorKinds
                   /\ HttpStatus(r) = StatusCode(r.kind)

\* C14 witness: one request has been answered with 503 and another with 400.
C14_Witness ==
    \E t \in Tasks, u \in Tasks :
        /\ pc[t] = "done" /\ ~Unwrap(response[t]).ok
        /\ Unwrap(response[t]).kind = "ModelLoading"
        /\ HttpStatus(Unwrap(response[t])) = 503
        /\ pc[u] = "done" /\ ~Unwrap(response[u]).ok
        /\ Unwrap(response[u]).kind = "BadRequest"
        /\ HttpStatus(Unwrap(response[u])) = 400

\* The samples of a report list that carry a match boolean in a field, and
\* those among them whose boolean is true.
Observed(reports, field) == {i \in 1..Len(reports) : IsSome(reports[i][field])}
Matched(reports, field) == {i \in Observed(reports, field) : Unwrap(reports[i][field])}

\* The rate as claimed for a field: matches over observations, None when
\* there is no observation.
ClaimedRate(reports, field) ==
    IF Observed(reports, field) = {} THEN None
    ELSE Some(<<Cardinality(Matched(reports, field)), Cardinality(Observed(reports, field))>>)

\* C15: in every report an evaluation run returns, the match rate of each path
\* is matches / observations over the samples that carry a match boolean on
\* that path, with 0 <= matches <= observations; it is None exactly when there
\* is no observation, and a sample is observed on the quantized path exactly
\* when it has a reference substring, on the baseline path exactly when it
\* has one and a baseline response was produced.
C15_MatchRate ==
    \A t \in Tasks :
        (op[t] = "evaluate" /\ pc[t] = "done" /\ Unwrap(response[t]).ok) =>
            LET report == Unwrap(response[t]).val
                reports == report.samples
                samples == bench[t].samples
                q == report.aggregate.quantized_reference_match_rate
                b == report.aggregate.baseline_reference_match_rate
            IN /\ Len(reports) = Len(samples)
               /\ q = ClaimedRate(reports, "reference_match_quantized")
               /\ b = ClaimedRate(reports, "reference_match_baseline")
               /\ \A r \in {q, b} :
                     IsSome(r) => (0 <= Unwrap(r)[1] /\ Unwrap(r)[1] <= Unwrap(r)[2]
                                     /\ Unwrap(r)[2] > 0)
               /\ Observed(reports, "reference_match_quantized") =
                     {i \in 1..Len(samples) : IsSome(samples[i].reference_substring)}
               /\ Observed(reports, "reference_match_baseline") =
                     {i \in 1..Len(samples) :
                         IsSome(samples[i].reference_substring) /\ IsSome(reports[i].baseline)}
               /\ IsNone(q) <=>
                     \A i \in 1..Len(samples) : IsNone(samples[i].reference_substring)
               /\ IsNone(b) <=>
                     \A i \in 1..Len(samples) :
                         IsNone(samples[i].reference_substring) \/ IsNone(reports[i].baseline)

\* C15 witness: one run over a sample with a reference substring returned a
\* rate on both paths, and another run, over samples none of which has a
\* reference substring, returned no rate on either path although both paths
\* responded.
C15_Witness ==
    \E t \in Tasks, u \in Tasks :
        /\ op[t] = "evaluate" /\ pc[t] = "done" /\ Unwrap(response[t]).ok
        /\ op[u] = "evaluate" /\ pc[u] = "done" /\ Unwrap(response[u]).ok
        /\ LET a == Unwrap(response[t]).val.aggregate
           IN /\ IsSome(a.quantized_reference_match_rate)
              /\ Unwrap(a.quantized_reference_match_rate)[1] > 0
              /\ IsSome(a.baseline_reference_match_rate)
        /\ LET report == Unwrap(response[u]).val
           IN /\ Len(report.samples) > 0
              /\ \A i \in 1..Len(report.samples) : IsSome(report.samples[i].baseline)
              /\ IsNone(report.aggregate.quantized_reference_match_rate)
              /\ IsNone(report.aggregate.baseline_reference_match_rate)

\* The from_metadata calls whose result is at hand.
SummaryCalls ==
    {Unwrap(response[t]) : t \in {u \in Tasks : IsSome(response[u])
                                     /\ Unwrap(response[u]).fn = "from_metadata"}}

\* C16: from_metadata returns a summary for all sizes q and b: the reduction
\* is absent exactly when the baseline metadata is absent, 0 when b = 0,
\* otherwise max(b - q, 0) / b * 100; so it is 10 for q = 900 and b = 1000, is 0
\* whenever q >= b, and lies between 0 and 100.
C16_SizeReduction ==
    \A c \in SummaryCalls :
        LET q == c.quantized
            s == c.summary
        IN /\ s.quantized_size_bytes = q
           /\ s.baseline_size_bytes = c.baseline
           /\ IsNone(s.size_reduction_percent) <=> IsNone(c.baseline)
           /\ IsSome(c.baseline) =>
                 LET b == Unwrap(c.baseline)
                     num == Unwrap(s.size_reduction_percent)[1]
                     den == Unwrap(s.size_reduction_percent)[2]
                 IN /\ den > 0
                    /\ b = 0 => num = 0
                    /\ b # 0 => num * b = (IF b > q THEN b - q ELSE 0) * 100 * den
                    /\ q >= b => num = 0
                    /\ (q = 900 /\ b = 1000) => num = 10 * den
                    /\ 0 <= num /\ num <= 100 * den

\* C16 witness: from_metadata has been applied to q = 900 and b = 1000 and
\* returned a reduction of 10.
C16_Witness ==
    \E c \in SummaryCalls :
        /\ c.quantized = 900
        /\ c.baseline = Some(1000)
        /\ Unwrap(c.summary.size_reduction_percent)[1]
              = 10 * Unwrap(c.summary.size_reduction_percent)[2]

\* The load_samples_from_path calls whose result is at hand.
LoadCalls ==
    {Unwrap(response[t]) : t \in {u \in Tasks : IsSome(response[u])
                                     /\ Unwrap(response[u]).fn = "load_samples_from_path"}}

\* An entry that violates the sample-file format as C17 lists it.
LacksPrompt(item) == ~item.object \/ item.prompt.kind # "string"
BadReference(item) == item.object /\ item.reference_substring.kind = "number"
Offending(item) == LacksPrompt(item) \/ BadReference(item)

\* C17 as stated: a file that is no list, and a list with an offending entry,
\* gives BadRequest and no samples; when the first offending entry lacks the
\* string field "prompt" the message names its zero-based index.
C17_FormatViolationsRejected ==
    \A c \in LoadCalls :
        LET f == c.file
            r == c.result
            bad == {i \in 1..Len(f.items) : Offending(f.items[i])}
        IN /\ f.kind \in {"invalid", "value"} => (~r.ok /\ r.kind = "BadRequest")
           /\ (f.kind = "array" /\ bad # {}) =>
                 LET first == CHOOSE i \in bad : \A j \in bad : i <= j
                 IN /\ ~r.ok
                    /\ r.kind = "BadRequest"
                    /\ LacksPrompt(f.items[first]) =>
                          r.msg = "benchmark item " \o ToString(first - 1)
                                     \o " missing string field 'prompt'"

\* C18: a baseline-forced generate request on a store without a baseline
\* handle ends in BadRequest with no generation dispatched; on a store with a
\* baseline handle it only ever runs on the baseline handle and its response
\* carries the baseline's metadata.
C18_BaselineForced ==
    \A t \in Tasks : op[t] = "generate_baseline" =>
        /\ ~HasBaseline =>
              /\ pc[t] = "done"
              /\ response[t] = Some(Err("BadRequest", "baseline model not available"))
              /\ call[t].pc = "none"
        /\ HasBaseline =>
              /\ pc[t] # "registry_quantized"
              /\ call[t].pc # "none" => call[t].model = "baseline"
              /\ (pc[t] = "done" /\ Unwrap(response[t]).ok) =>
                    Unwrap(response[t]).val.model = Metadata("baseline")

\* C18 witness: on a store with a quantized handle and no baseline handle a
\* baseline-forced request has been answered with BadRequest.
C18_Witness ==
    \E t \in Tasks :
        /\ ~HasBaseline
        /\ HasQuantized
        /\ op[t] = "generate_baseline"
        /\ pc[t] = "done"
        /\ Unwrap(response[t]).kind = "BadRequest"

\* C19: whatever load finds at the configured paths, a successful load yields
\* a store with a baseline handle and no quantized handle; has_baseline and
\* has_quantized tell the presence of the handles, and no step of the service
\* changes the handles or the value either of them returns.
C19_HandlesFixed ==
    /\ \A env \in LoadEnvs :
          LET r == ModelArtifactsLoad(env)
          IN /\ r.ok <=> (env.tokenizer_file /\ env.baseline_file = "module")
             /\ r.ok => (r.val.baseline /\ ~r.val.quantized)
    /\ [][/\ artifacts' = artifacts
          /\ HasBaseline' = artifacts'.baseline
          /\ HasQuantized' = artifacts'.quantized
          /\ HasBaseline' = HasBaseline
          /\ HasQuantized' = HasQuantized
          /\ (\E env \in LoadEnvs : ModelArtifactsLoad(env).ok
                                      /\ artifacts = ModelArtifactsLoad(env).val)
                => (HasBaseline' /\ ~HasQuantized')]_vars

\* C19 witness: on the store load yields a request has been served by the
\* baseline handle, and the store still has a baseline and no quantized handle.
C19_Witness ==
    /\ \E env \in LoadEnvs :
          /\ env.quantized_file = "module"
          /\ ModelArtifactsLoad(env).ok
          /\ artifacts = ModelArtifactsLoad(env).val
    /\ HasBaseline
    /\ ~HasQuantized
    /\ \E t \in Tasks :
          /\ op[t] = "generate"
          /\ pc[t] = "done"
          /\ Unwrap(response[t]).ok

\* The sequence a decode loop starts from: the encoded prompt, or the single
\* placeholder id 0 when the encoding is empty.
EncodedPrompt(prompt) == IF Encode(prompt) = <<>> THEN <<0>> ELSE Encode(prompt)

\* C20: the forward passes of a request run one after the other; the input of
\* its k-th pass is its whole sequence, the encoded prompt (or the placeholder
\* id 0) followed by the k-1 ids selected so far, of length
\* prompt_token_len + k - 1; each pass appends the id selected from that
\* input and changes no earlier id.
C20_WholeSequenceEachPass ==
    [][\A t \in Tasks :
          LET c == call[t]
              d == call'[t]
          IN /\ d.pc = "forward" =>
                   /\ InputTensor(t)' = d.input_ids
                   /\ Len(InputTensor(t)') = d.prompt_token_len + d.passes - 1
                   /\ SubSeq(d.input_ids, 1, d.prompt_token_len) = EncodedPrompt(d.prompt)
                   /\ \A k \in 1..(d.passes - 1) :
                         d.input_ids[d.prompt_token_len + k] =
                            NextTokenId(d.model, SubSeq(d.input_ids, 1, d.prompt_token_len + k - 1))
             /\ (c.pc = "loop" /\ d.pc = "forward") =>
                   (d.passes = c.passes + 1 /\ d.input_ids = c.input_ids)
             /\ c.pc = "forward" =>
                   /\ d.passes = c.passes
                   /\ d.pc \in {"forward", "loop", "decode", "finished", "panicked"}
                   /\ d.pc \in {"loop", "decode"} =>
                         d.input_ids = Append(c.input_ids, NextTokenId(c.model, c.input_ids))
             /\ (c.pc \in {"loop", "forward"} /\ d.pc # "none") =>
                   IsPrefix(c.input_ids, d.input_ids)]_vars

\* C20 witness: a request whose prompt encodes to no token is inside its
\* second forward pass, whose input is the placeholder id 0 followed by the id
\* selected in the first pass.
C20_Witness ==
    \E t \in Tasks :
        /\ call[t].pc = "forward"
        /\ Encode(call[t].prompt) = <<>>
        /\ call[t].passes = 2
        /\ call[t].prompt_token_len = 1
        /\ InputTensor(t) = <<0, NextTokenId(call[t].model, <<0>>)>>

\* The generation of a benchmark sample fails in this step: the registry has
\* no handle for it, or the caller is resumed with a worker's error or panic.
SampleFails(t) ==
    /\ op[t] = "evaluate"
    /\ \/ pc[t] = "registry_quantized" /\ ~artifacts.quantized
       \/ pc[t] = "registry_baseline" /\ ~artifacts.baseline
       \/ /\ pc[t] = "await"
          /\ \/ call[t].pc = "panicked"
             \/ call[t].pc = "finished" /\ ~Unwrap(call[t].result).ok
    /\ pc'[t] # pc[t]

\* C21: the first failed generation of a benchmark run ends the run: the run
\* returns an error, keeps no report of the samples done so far, dispatches no
\* further generation (after the failure the task only becomes idle again),
\* and the cached evaluation report is left as it was.
C21_FirstFailureAborts ==
    [][\A t \in Tasks :
          /\ SampleFails(t) =>
                /\ pc'[t] = "done"
                /\ ~Unwrap(response'[t]).ok
                /\ (pc[t] = "await" /\ call[t].pc = "finished") =>
                      response'[t] = call[t].result
                /\ call'[t].pc = "none"
                /\ bench'[t].reports = <<>>
                /\ bench'[t].quantized = None
                /\ evaluation' = evaluation
          /\ (op[t] = "evaluate" /\ pc[t] = "done" /\ ~Unwrap(response[t]).ok) =>
                /\ call'[t] = call[t]
                /\ call[t].pc = "none"
                /\ pc'[t] \in {"done", "idle"}
                /\ evaluation' # evaluation =>
                      \E u \in Tasks \ {t} : pc[u] = "eval_write"]_vars

\* C21 witness: a run over at least two samples ended with a worker's error
\* while the cache holds the report of an earlier run.
C21_Witness ==
    \E t \in Tasks :
        /\ op[t] = "evaluate"
        /\ pc[t] = "done"
        /\ ~Unwrap(response[t]).ok
        /\ Unwrap(response[t]).kind = "Inference"
        /\ Len(bench[t].samples) >= 2
        /\ IsSome(evaluation)

\* Two calls are the same generation but for temperature and top_k.
SameGeneration(c, d) ==
    /\ c.prompt = d.prompt
    /\ c.max_new_tokens = d.max_new_tokens
    /\ c.model = d.model

\* C22: two requests with the same prompt and max_new_tokens on the same
\* handle select the same ids whatever their temperature and top_k, given or
\* defaulted: after equally many iterations their sequences are equal, and
\* when both succeed their generated ids, completion and tokens_generated are
\* equal.
C22_SamplingParametersIgnored ==
    \A t \in Tasks, u \in Tasks :
        LET c == call[t]
            d == call[u]
        IN SameGeneration(c, d) =>
              /\ (c.pc \in {"loop", "forward", "decode"} /\ d.pc \in {"loop", "forward", "decode"}
                    /\ c.iter = d.iter) => c.input_ids = d.input_ids
              /\ (c.pc = "finished" /\ d.pc = "finished"
                    /\ Unwrap(c.result).ok /\ Unwrap(d.result).ok) =>
                    /\ Generated(c) = Generated(d)
                    /\ Unwrap(c.result).val.completion = Unwrap(d.result).val.completion
                    /\ Unwrap(c.result).val.tokens_generated
                          = Unwrap(d.result).val.tokens_generated

\* C22 witness: two requests for the same generation have both succeeded with
\* at least one generated id, one with the default temperature and top_k, the
\* other with a temperature and a top_k of its own.
C22_Witness ==
    \E t \in Tasks, u \in Tasks :
        /\ SameGeneration(call[t], call[u])
        /\ call[t].pc = "finished" /\ Unwrap(call[t].result).ok
        /\ call[u].pc = "finished" /\ Unwrap(call[u].result).ok
        /\ call[t].temperature = config.temperature
        /\ call[t].top_k = config.top_k
        /\ call[u].temperature # config.temperature
        /\ call[u].top_k # config.top_k
        /\ Unwrap(call[t].result).val.tokens_generated > 1

\* A generation request has been dispatched and its caller has no result yet.
Dispatched(t) == pc[t] \in {"registry_quantized", "registry_baseline", "await"}

\* C23: under fair scheduling every dispatched generation request ends with a
\* response or an error, having run at most max_new_tokens forward passes; a
\* request that waits for the lock of its handle acquires it, a held lock is
\* released, and a caller suspended on a worker is resumed with its result.
C23_RequestsComplete ==
    /\ [](\A t \in Tasks : call[t].passes <= call[t].max_new_tokens)
    /\ \A t \in Tasks :
          /\ Dispatched(t) ~>
                (pc[t] = "done" /\ IsSome(response[t]) /\ call[t].pc = "none")
          /\ (call[t].pc = "lock") ~> (call[t].pc = "loop" /\ lock[call[t].model] = t)
    /\ \A h \in Handles : (lock[h] # 0) ~> (lock[h] = 0)

\* C23 witness: a dispatched request waits for the lock of a handle on which
\* another request is inside a forward pass.
C23_Witness ==
    \E t \in Tasks, u \in Tasks :
        /\ pc[t] = "await"
        /\ call[t].pc = "lock"
        /\ lock[call[t].model] = u
        /\ call[u].pc = "forward"

\* C24: a successful generation reports 0 <= tokens_generated <=
\* max_new_tokens, has run exactly tokens_generated forward passes, holds the
\* end-of-sequence id at most as its last generated id, and ends with that id
\* whenever tokens_generated < max_new_tokens.
C24_TokenCount ==
    \A t \in Tasks :
        (call[t].pc = "finished" /\ Unwrap(call[t].result).ok) =>
            LET c == call[t]
                g == Generated(c)
                n == Unwrap(c.result).val.tokens_generated
            IN /\ 0 <= n /\ n <= c.max_new_tokens
               /\ n = Len(g)
               /\ c.passes = n
               /\ \A i \in 1..(Len(g) - 1) : g[i] # EOS
               /\ n < c.max_new_tokens => (n >= 1 /\ g[n] = EOS)

\* C24 witness: one generation stopped at the end-of-sequence id below its
\* bound, and another ran to its bound of at least two ids without selecting
\* that id.
C24_Witness ==
    \E t \in Tasks, u \in Tasks :
        /\ call[t].pc = "finished" /\ Unwrap(call[t].result).ok
        /\ Unwrap(call[t].result).val.tokens_generated < call[t].max_new_tokens
        /\ call[u].pc = "finished" /\ Unwrap(call[u].result).ok
        /\ call[u].max_new_tokens >= 2
        /\ Unwrap(call[u].result).val.tokens_generated = call[u].max_new_tokens
        /\ \A i \in 1..Len(Generated(call[u])) : Generated(call[u])[i] # EOS

\* An evaluation run is under way: between the handler's start and its
\* replace step.
EvaluationRunning(t) == op[t] = "evaluate" /\ pc[t] # "done"

\* C25: the cache is written only in the replace step of a run whose
\* run_benchmark returned Ok, when that run has no generation in flight, and
\* it then holds that run's report, whatever other runs are under way; a
\* metadata query can be served in every state in which its task is idle,
\* also while evaluation runs are under way, and returns the report cached at
\* that moment without changing the cache.
C25_CacheLockedForReplaceOnly ==
    /\ [](\A u \in Tasks : pc[u] = "idle" => ENABLED HandlerMetadata(u))
    /\ [][/\ evaluation' # evaluation =>
                \E t \in Tasks : pc[t] = "eval_write" /\ pc'[t] = "done"
          /\ \A t \in Tasks :
                /\ (pc[t] = "eval_write" /\ pc'[t] = "done") =>
                      /\ call[t].pc = "none"
                      /\ bench[t].idx > Len(bench[t].samples)
                      /\ Unwrap(response'[t]).ok
                      /\ evaluation' = Some(Unwrap(response'[t]).val)
                /\ (pc[t] = "idle" /\ op'[t] = "metadata") =>
                      /\ Unwrap(response'[t]).val.evaluation = evaluation
                      /\ evaluation' = evaluation
                /\ (EvaluationRunning(t) /\ pc[t] # "eval_write") =>
                      (evaluation' = evaluation
                          \/ \E u \in Tasks \ {t} : pc[u] = "eval_write")]_vars

\* C25 witness: while an evaluation run has a generation inside a forward
\* pass, after one sample is reported, the cache holds an earlier report and
\* a metadata query of an idle task can be served.
C25_Witness ==
    \E t \in Tasks, u \in Tasks :
        /\ EvaluationRunning(t)
        /\ call[t].pc = "forward"
        /\ Len(bench[t].reports) >= 1
        /\ IsSome(evaluation)
        /\ pc[u] = "idle"
        /\ ENABLED HandlerMetadata(u)

====
